---- MODULE Spec2Model ----
(***************************************************************************)
(* Bug tracker: the client-side BugProvider (BugContext.jsx) and the       *)
(* ErrorBoundary instances of App (App.jsx, ErrorBoundary.jsx), the server *)
(* controllers (bugController.js) over the Bug model (Bug.js), the         *)
(* errorHandler middleware (errorHandler.js) and bugUtils.js.              *)
(*                                                                         *)
(* The specifications share the variables:                                 *)
(*   SpecClient  one BugProvider talking to the server over the network;   *)
(*   SpecServer  API requests handled concurrently by the controllers;     *)
(*   SpecStore   one caller's requests, one after the other, over time;    *)
(*   SpecError   errorHandler applied to one raw error;                    *)
(*   SpecSink    errorHandler with a logging sink that may throw;          *)
(*   SpecUtils   one call of a function of bugUtils.js;                    *)
(*   SpecUi      App and its boundaries under failing renders and clicks.  *)
(***************************************************************************)
EXTENDS Integers, Sequences, FiniteSets, TLC

VARIABLES
    store,        \* server: the bugs collection, a set of documents
    nextId,       \* server: the next ObjectId the store assigns
    reqs,         \* requests in flight, in the order they were issued
    bugs,         \* BugProvider: useState([])   the local collection
    loading,      \* BugProvider: useState(false)
    error,        \* BugProvider: useState(null) ("" is null)
    filters,      \* BugProvider: useState({})
    mounted,      \* BugProvider: the mount effect has run
    ncalls,       \* history: number of requests issued so far
    nReloads,     \* history: number of loadBugs calls so far
    nSetFilters,  \* history: number of updateFilters calls so far
    last,         \* history: what the last step did, when it was a createBug that
                  \* threw at once or one that found its bug in bugs, or a call
                  \* that rethrew the error of its service call ("" otherwise)
    madeBy,       \* history: <<request, id>> of each document a request created
    overlap,      \* history: <<c1, c2>>, create c2 was sent while its twin c1 was out
    done,         \* SpecServer: the responses the API callers received
    err,          \* SpecError: the raw error handed to errorHandler
    env,          \* process.env.NODE_ENV
    sink,         \* errorReportingService.logError: "ok", or "throws" when called
    now,          \* the server's clock, new Date()
    call,         \* SpecUtils: the call of a bugUtils function being made
    ret,          \* SpecUtils: what that call returned or threw
    ui,           \* App: its state and that of its ErrorBoundary instances
    sent          \* SpecError: the responses errorHandler sent

vars == <<store, nextId, reqs, bugs, loading, error, filters, mounted,
          ncalls, nReloads, nSetFilters, last, madeBy, overlap, done, err, env,
          sink, now, call, ret, ui, sent>>

clientVars == <<bugs, loading, error, filters, mounted, nReloads, nSetFilters>>
serverVars == <<store, nextId>>
\* what a step of the server leaves alone
notServer == <<clientVars, ncalls, overlap, done, err, env, sink, now, call, ret,
               ui, sent>>
\* what a step of the BugProvider leaves alone
notClient == <<done, err, env, sink, now, call, ret, ui, sent>>

(***************************************************************************)
(* Bounds of the model.                                                    *)
(***************************************************************************)
\* calls the BugProvider's users make in one run (SpecClient)
MaxCalls == 4
\* requests the API's callers make in one run (SpecServer)
MaxRequests == 2
\* requests the one caller of SpecStore makes, one after the other
MaxOps == 3
\* events (clicks, and renders that start or stop failing) of one run of SpecUi
MaxEvents == 4
\* the last time the clock of SpecStore reaches
MaxNow == 2

(***************************************************************************)
(* Bug.js: the schema.                                                     *)
(***************************************************************************)
Statuses == {"open", "in-progress", "resolved"}
Priorities == {"low", "medium", "high", "critical"}
TitleMax == 200

\* A malformed identifier (not castable to ObjectId); valid ObjectIds are 1, 2, ...
Malformed == 0
NoId == -1

isObjectId(id) == id >= 1

RECURSIVE TrimLeft(_)
TrimLeft(s) == IF s # <<>> /\ Head(s) = " " THEN TrimLeft(Tail(s)) ELSE s

RECURSIVE TrimRight(_)
TrimRight(s) ==
    IF s # <<>> /\ s[Len(s)] = " " THEN TrimRight(SubSeq(s, 1, Len(s) - 1)) ELSE s

\* String.prototype.trim, the schema's trim: true
Trim(s) == TrimRight(TrimLeft(s))

Chars(n, c) == [i \in 1..n |-> c]

\* A request body: has = the keys present; the values of absent keys are unused.
\* description and reporter, the two other required strings of the schema, are
\* carried valid by every create body here and are left out of the documents.
\* The controllers hand req.body to mongoose whole, so a body may also carry
\* _id and createdAt, or an update operator: "$rename" stands for the body
\* {"$rename": {"title": "t"}}.
Body(has, title, status, priority) ==
    [has |-> has, title |-> title, status |-> status, priority |-> priority,
     id |-> NoId, createdAt |-> 0]

WithId(b, id) == [b EXCEPT !.has = @ \cup {"_id"}, !.id = id]

WithCreatedAt(b, t) == [b EXCEPT !.has = @ \cup {"createdAt"}, !.createdAt = t]

NoBody == Body({}, <<>>, "", "")
NoQuery == [status |-> "", priority |-> "", sort |-> ""]

\* The validators of the paths a create or an update sets, in schema order.
titleErrors(b, isCreate) ==
    IF "title" \in b.has
    THEN IF Trim(b.title) = <<>> THEN <<"Title is required">>
         ELSE IF Len(Trim(b.title)) > TitleMax
              THEN <<"Title cannot exceed 200 characters">>
              ELSE <<>>
    ELSE IF isCreate THEN <<"Title is required">> ELSE <<>>

statusErrors(b) ==
    IF "status" \in b.has /\ b.status \notin Statuses
    THEN <<"Status must be one of: open, in-progress, resolved">>
    ELSE <<>>

priorityErrors(b) ==
    IF "priority" \in b.has /\ b.priority \notin Priorities
    THEN <<"Priority must be one of: low, medium, high, critical">>
    ELSE <<>>

schemaErrors(b, isCreate) ==
    titleErrors(b, isCreate) \o statusErrors(b) \o priorityErrors(b)

\* The document Bug.create builds at time t from a valid body: setters,
\* defaults, and timestamps: true, which gives a new document the createdAt of
\* its body, or the time when it has none, and that same value as updatedAt. id is
\* the ObjectId generated for a body without _id.
newDocAt(id, b, t) ==
    LET created == IF "createdAt" \in b.has THEN b.createdAt ELSE t
    IN  [id |-> IF "_id" \in b.has THEN b.id ELSE id,
         title |-> Trim(b.title),
         status |-> IF "status" \in b.has THEN b.status ELSE "open",
         priority |-> IF "priority" \in b.has THEN b.priority ELSE "medium",
         createdAt |-> created,
         updatedAt |-> created]

newDoc(id, b) == newDocAt(id, b, now)

\* The document after an update applies a valid body: it sets the paths given,
\* $rename moves title away (an empty title stands for none), updatedAt is set
\* to the time, _id and createdAt stay.
updatedDoc(d, b) ==
    [id |-> d.id,
     title |-> IF "$rename" \in b.has THEN <<>>
               ELSE IF "title" \in b.has THEN Trim(b.title) ELSE d.title,
     status |-> IF "status" \in b.has THEN b.status ELSE d.status,
     priority |-> IF "priority" \in b.has THEN b.priority ELSE d.priority,
     createdAt |-> d.createdAt,
     updatedAt |-> now]

\* messages.join(', ')
RECURSIVE Join(_)
Join(msgs) ==
    IF msgs = <<>> THEN ""
    ELSE IF Len(msgs) = 1 THEN msgs[1]
    ELSE msgs[1] \o ", " \o Join(Tail(msgs))

(***************************************************************************)
(* bugUtils.js, over JavaScript values.                                    *)
(***************************************************************************)
\* A primitive: t is its typeof ("null" for null). A string is either a word,
\* compared whole (s), or a text (chars), of which only the characters matter.
Prim(t, s, chars) == [t |-> t, s |-> s, chars |-> chars]

Undefined == Prim("undefined", "", <<>>)
Null == Prim("null", "", <<>>)
Number == Prim("number", "", <<>>)
Word(s) == Prim("string", s, <<>>)
Text(chars) == Prim("string", "", chars)

Fields == {"title", "description", "reporter", "status", "priority"}

\* A value passed as an argument: a primitive, with no own fields, or an object.
Value(p) == [t |-> p.t, s |-> p.s, chars |-> p.chars, f |-> [k \in Fields |-> Undefined]]

Object(title, description, reporter, status, priority) ==
    [t |-> "object", s |-> "", chars |-> <<>>,
     f |-> [k \in Fields |->
              CASE k = "title" -> title [] k = "description" -> description
                [] k = "reporter" -> reporter [] k = "status" -> status
                [] OTHER -> priority]]

\* v.key throws a TypeError when v is null or undefined
ReadThrows(v) == v.t \in {"null", "undefined"}

\* v.key otherwise: a field of an object, undefined of any other value
Read(v, key) == IF v.t = "object" THEN v.f[key] ELSE Undefined

\* !x: of the values here, undefined, null and the empty string are falsy
Falsy(x) == x.t \in {"undefined", "null"} \/ (x.t = "string" /\ x.s = "" /\ x.chars = <<>>)

\* What a call returns (kind is the typeof of the value), or that it threw.
Ret(threw, kind, bool, num, errors) ==
    [threw |-> threw, kind |-> kind, bool |-> bool, num |-> num, errors |-> errors]

NoRet == Ret(FALSE, "none", FALSE, 0, <<>>)
Threw == Ret(TRUE, "none", FALSE, 0, <<>>)

NoCall == [fn |-> "", a |-> Value(Undefined), b |-> Value(Undefined)]

\* validStatuses.includes(x)
isStatus(x) == x.t = "string" /\ x.chars = <<>> /\ x.s \in Statuses

\* The table of isValidStatusTransition and getValidNextStatuses.
validTransitions ==
    [s \in Statuses |->
        CASE s = "open" -> {"in-progress", "resolved"}
          [] s = "in-progress" -> {"open", "resolved"}
          [] s = "resolved" -> {"open", "in-progress"}]

\* isValidStatusTransition with a table that lets a resolved bug stay resolved.
isValidStatusTransitionResolvedStays(currentStatus, newStatus) ==
    IF ~isStatus(currentStatus) \/ ~isStatus(newStatus)
    THEN Ret(FALSE, "boolean", FALSE, 0, <<>>)
    ELSE Ret(FALSE, "boolean",
             newStatus.s \in [validTransitions EXCEPT !["resolved"] = @ \cup {"resolved"}]
                                [currentStatus.s],
             0, <<>>)

isValidStatusTransition(currentStatus, newStatus) ==
    IF ~isStatus(currentStatus) \/ ~isStatus(newStatus)
    THEN Ret(FALSE, "boolean", FALSE, 0, <<>>)
    ELSE Ret(FALSE, "boolean", newStatus.s \in validTransitions[currentStatus.s],
             0, <<>>)

\* weights[priority] || 0: the key is looked up on the object literal and, not
\* found there, on Object.prototype, whose members are functions.
getPriorityWeight(priority) ==
    IF priority.t = "string" /\ priority.chars = <<>>
    THEN CASE priority.s = "low" -> Ret(FALSE, "number", FALSE, 1, <<>>)
           [] priority.s = "medium" -> Ret(FALSE, "number", FALSE, 2, <<>>)
           [] priority.s = "high" -> Ret(FALSE, "number", FALSE, 3, <<>>)
           [] priority.s = "critical" -> Ret(FALSE, "number", FALSE, 4, <<>>)
           [] priority.s \in {"constructor", "toString", "valueOf"} ->
                Ret(FALSE, "function", FALSE, 0, <<>>)
           [] OTHER -> Ret(FALSE, "number", FALSE, 0, <<>>)
    ELSE Ret(FALSE, "number", FALSE, 0, <<>>)

\* !x || typeof x !== 'string' || x.trim().length === 0
requiredText(x) == Falsy(x) \/ x.t # "string" \/ (x.s = "" /\ Trim(x.chars) = <<>>)

\* x && ![...].includes(x)
notOneOf(x, S) == ~Falsy(x) /\ ~(x.t = "string" /\ x.chars = <<>> /\ x.s \in S)

validateBugData(bugData) ==
    IF ReadThrows(bugData) THEN Threw
    ELSE LET title == Read(bugData, "title")
             errors ==
                (IF requiredText(title)
                 THEN <<"Title is required and must be a non-empty string">>
                 ELSE IF Len(title.chars) > TitleMax
                      THEN <<"Title cannot exceed 200 characters">> ELSE <<>>)
                \o (IF requiredText(Read(bugData, "description"))
                    THEN <<"Description is required and must be a non-empty string">>
                    ELSE <<>>)
                \o (IF requiredText(Read(bugData, "reporter"))
                    THEN <<"Reporter is required and must be a non-empty string">>
                    ELSE <<>>)
                \o (IF notOneOf(Read(bugData, "status"), Statuses)
                    THEN <<"Status must be one of: open, in-progress, resolved">>
                    ELSE <<>>)
                \o (IF notOneOf(Read(bugData, "priority"), Priorities)
                    THEN <<"Priority must be one of: low, medium, high, critical">>
                    ELSE <<>>)
         IN  Ret(FALSE, "object", errors = <<>>, 0, errors)

\* The body of a create request that is the JSON of a JavaScript object: the
\* keys with a value, a number cast to its digits by the String type.
toBody(v) ==
    LET title == Read(v, "title")
    IN  Body({k \in {"title", "status", "priority"} : Read(v, k).t # "undefined"},
             IF title.t = "number" THEN <<"1">> ELSE title.chars,
             Read(v, "status").s, Read(v, "priority").s)

\* required: [true, ...] with trim: true, of description and reporter
requiredErrors(x, msg) ==
    IF x.t \in {"undefined", "null"} \/ (x.t = "string" /\ x.s = "" /\ Trim(x.chars) = <<>>)
    THEN <<msg>> ELSE <<>>

\* The validation errors of Bug.create(v).
bugSchemaErrors(v) ==
    schemaErrors(toBody(v), TRUE)
    \o requiredErrors(Read(v, "description"), "Description is required")
    \o requiredErrors(Read(v, "reporter"), "Reporter is required")

(***************************************************************************)
(* Raw errors and responses.                                               *)
(***************************************************************************)
\* An error object: code 0 and statusCode 0 stand for undefined.
RawError(name, code, statusCode, message, errors) ==
    [name |-> name, code |-> code, statusCode |-> statusCode,
     message |-> message, errors |-> errors]

NoError == RawError("", 0, 0, "", <<>>)

CastError == RawError("CastError", 0, 0, "Cast to ObjectId failed", <<>>)

\* The store's error for an insert that repeats a unique key (_id).
DuplicateKey ==
    RawError("MongoServerError", 11000, 0, "E11000 duplicate key error", <<>>)

ValidationError(msgs) ==
    RawError("ValidationError", 0, 0, "Bug validation failed", msgs)

\* res.status(s).json({success, data | error, stack?, details?})
\* logs (history, not part of the body): how many times the failure answered
\* was handed to errorReportingService.logError before the response was sent.
Response(status, data, errorText, diag) ==
    [status |-> status, success |-> status < 400, data |-> data,
     error |-> errorText, diag |-> diag, logs |-> 0]

NoResponse == [status |-> 0, success |-> FALSE, data |-> <<>>, error |-> "",
               diag |-> FALSE, logs |-> 0]

(***************************************************************************)
(* errorHandler.js                                                         *)
(***************************************************************************)
Override(cond, e, message, statusCode) ==
    IF cond THEN [message |-> message, statusCode |-> statusCode] ELSE e

errorHandlerDuplicateKey(e, x) ==
    Override(e.code = 11000, x, "Duplicate field value entered", 400)

errorHandlerMongo(e, x) ==
    Override(e.name \in {"MongoServerError", "MongoError"}, x,
             "Database operation failed", 500)

errorHandlerJwt(e, x) ==
    Override(e.name = "TokenExpiredError",
             Override(e.name = "JsonWebTokenError", x, "Invalid token", 401),
             "Token expired", 401)

\* The rules with the validation error answered 500.
classifiedValidation500(e) ==
    LET e0 == [message |-> e.message, statusCode |-> e.statusCode]
        e1 == Override(e.name = "CastError", e0, "Resource not found", 404)
        e2 == errorHandlerDuplicateKey(e, e1)
        e3 == Override(e.name = "ValidationError", e2, Join(e.errors), 500)
        e4 == errorHandlerMongo(e, e3)
    IN  errorHandlerJwt(e, e4)

\* The error the successive rules leave: each rule that matches replaces it.
classified(e) ==
    LET e0 == [message |-> e.message, statusCode |-> e.statusCode]
        e1 == Override(e.name = "CastError", e0, "Resource not found", 404)
        e2 == errorHandlerDuplicateKey(e, e1)
        e3 == Override(e.name = "ValidationError", e2, Join(e.errors), 400)
        e4 == errorHandlerMongo(e, e3)
    IN  errorHandlerJwt(e, e4)

\* The calls of errorReportingService.logError one run of errorHandler makes:
\* logApplicationError always, logDatabaseError under the MongoDB rule.
loggerCalls(e) ==
    1 + (IF e.name \in {"MongoServerError", "MongoError"} THEN 1 ELSE 0)

\* errorHandler with stack and details in every response.
errorHandlerAlwaysDiagnostic(e, nodeEnv) ==
    LET c == classified(e)
        statusCode == IF c.statusCode # 0 THEN c.statusCode ELSE 500
        message == IF c.message # "" THEN c.message ELSE "Server Error"
    IN  [Response(statusCode, <<>>, message, TRUE) EXCEPT !.logs = loggerCalls(e)]

errorHandler(e, nodeEnv) ==
    LET c == classified(e)
        statusCode == IF c.statusCode # 0 THEN c.statusCode ELSE 500
        message == IF c.message # "" THEN c.message ELSE "Server Error"
    IN  [Response(statusCode, <<>>, message, nodeEnv = "development")
            EXCEPT !.logs = loggerCalls(e)]

(***************************************************************************)
(* bugController.js: what each controller answers, given the store.        *)
(***************************************************************************)
\* sortBy '-createdAt' | 'createdAt' | '-priority'. Documents with one createdAt
\* order as their ids do (ids are generated in creation order); '-priority' is
\* the descending order of the priority strings; ties keep the store's natural
\* (creation) order.
before(a, b, sort) ==
    IF sort = "oldest"
    THEN a.createdAt < b.createdAt \/ (a.createdAt = b.createdAt /\ a.id < b.id)
    ELSE IF sort = "priority"
         THEN LET rank == [p \in Priorities |->
                             CASE p = "critical" -> 1 [] p = "high" -> 2
                               [] p = "low" -> 3 [] p = "medium" -> 4]
              IN  \/ rank[a.priority] > rank[b.priority]
                  \/ rank[a.priority] = rank[b.priority] /\ a.id < b.id
         ELSE a.createdAt > b.createdAt \/ (a.createdAt = b.createdAt /\ a.id > b.id)

RECURSIVE sorted(_, _)
sorted(S, sort) ==
    IF S = {} THEN <<>>
    ELSE LET first == CHOOSE a \in S : \A b \in S \ {a} : before(a, b, sort)
         IN  <<first>> \o sorted(S \ {first}, sort)

\* Bug.find(query).sort(sortBy): an empty filter value is not part of the query.
find(docs, q) ==
    sorted({d \in docs : /\ q.status # "" => d.status = q.status
                         /\ q.priority # "" => d.priority = q.priority},
           q.sort)

getBugs(docs, q) == Response(200, find(docs, q), "", FALSE)

NotFound == Response(404, <<>>, "Bug not found", FALSE)

\* Bug.findById(id): a CastError for a malformed id, else the document or null.
findById(docs, id) == {d \in docs : d.id = id}

getBugCatch(e, nodeEnv) ==
    IF e.name = "CastError" THEN NotFound ELSE errorHandler(e, nodeEnv)

getBug(docs, id, nodeEnv) ==
    IF ~isObjectId(id) THEN getBugCatch(CastError, nodeEnv)
    ELSE IF findById(docs, id) = {} THEN NotFound
    ELSE Response(200, <<CHOOSE d \in findById(docs, id) : TRUE>>, "", FALSE)

createBugCatch(e, nodeEnv) ==
    IF e.name = "ValidationError" THEN Response(400, <<>>, Join(e.errors), FALSE)
    ELSE errorHandler(e, nodeEnv)

\* createBug saving the body as it comes.
createBugUnvalidated(id, b, nodeEnv) == Response(201, <<newDoc(id, b)>>, "", FALSE)

createBug(id, b, nodeEnv) ==
    IF schemaErrors(b, TRUE) # <<>>
    THEN createBugCatch(ValidationError(schemaErrors(b, TRUE)), nodeEnv)
    ELSE Response(201, <<newDoc(id, b)>>, "", FALSE)

updateBugCatch(e, nodeEnv) ==
    IF e.name = "ValidationError" THEN Response(400, <<>>, Join(e.errors), FALSE)
    ELSE IF e.name = "CastError" THEN NotFound
    ELSE errorHandler(e, nodeEnv)

\* Bug.findByIdAndUpdate(id, body, {new, runValidators}): the filter is cast
\* first, then the update is validated, then the document is looked up.
updateBug(docs, id, b, nodeEnv) ==
    IF ~isObjectId(id) THEN updateBugCatch(CastError, nodeEnv)
    ELSE IF schemaErrors(b, FALSE) # <<>>
         THEN updateBugCatch(ValidationError(schemaErrors(b, FALSE)), nodeEnv)
    ELSE IF findById(docs, id) = {} THEN NotFound
    ELSE Response(200, <<updatedDoc(CHOOSE d \in findById(docs, id) : TRUE, b)>>,
                  "", FALSE)

deleteBugCatch(e, nodeEnv) ==
    IF e.name = "CastError" THEN NotFound ELSE errorHandler(e, nodeEnv)

\* deleteBug without its if (!bug): bug.deleteOne() of null throws a TypeError.
deleteBugFindUnchecked(docs, id, nodeEnv) ==
    IF ~isObjectId(id) THEN deleteBugCatch(CastError, nodeEnv)
    ELSE IF findById(docs, id) = {}
         THEN deleteBugCatch(RawError("TypeError", 0, 0,
                                      "Cannot read properties of null", <<>>),
                             nodeEnv)
    ELSE NoResponse

\* The first half of deleteBug: Bug.findById and the 404 of a miss.
deleteBugFind(docs, id, nodeEnv) ==
    IF ~isObjectId(id) THEN deleteBugCatch(CastError, nodeEnv)
    ELSE IF findById(docs, id) = {} THEN NotFound
    ELSE NoResponse

(***************************************************************************)
(* Requests in flight.                                                     *)
(***************************************************************************)
\* phase: "sent" (not yet handled), "found" (deleteBug between findById and
\* deleteOne), "answered" (the response is on its way back).
\* gen: the number of updateFilters calls made when a reload was issued.
\* lookup: what the store's lookup by id gave the controller: "" (none made),
\* "CastError", "null", "doc", or "fault" (another error of the store).
Request(cid, kind, id, body, query, gen) ==
    [cid |-> cid, kind |-> kind, id |-> id, body |-> body, query |-> query,
     gen |-> gen, phase |-> "sent", lookup |-> "", res |-> NoResponse]

Remove(s, i) == SubSeq(s, 1, i - 1) \o SubSeq(s, i + 1, Len(s))

Mutating == {"createBug", "updateBug", "deleteBug"}

InFlight(kinds) == {i \in DOMAIN reqs : reqs[i].kind \in kinds}

(***************************************************************************)
(* The server handling a request.                                          *)
(***************************************************************************)
Answer(i, r, lookup) ==
    reqs' = [reqs EXCEPT ![i].phase = "answered", ![i].res = r, ![i].lookup = lookup]

\* Bug.findById(id) and the lookup of Bug.findByIdAndUpdate(id, ...)
Lookup(docs, id) ==
    IF ~isObjectId(id) THEN "CastError"
    ELSE IF findById(docs, id) = {} THEN "null"
    ELSE "doc"

ServeGetBugs(i) ==
    /\ reqs[i].kind = "getBugs" /\ reqs[i].phase = "sent"
    /\ Answer(i, getBugs(store, reqs[i].query), "")
    /\ UNCHANGED <<serverVars, madeBy, notServer>>
    /\ last' = ""

ServeGetBug(i) ==
    /\ reqs[i].kind = "getBug" /\ reqs[i].phase = "sent"
    /\ Answer(i, getBug(store, reqs[i].id, env), Lookup(store, reqs[i].id))
    /\ UNCHANGED <<serverVars, madeBy, notServer>>
    /\ last' = ""

\* Bug.create of a valid body whose _id a stored document has already fails in
\* the store with the duplicate key error, which createBug passes to next(error).
ServeCreateBug(i) ==
    /\ reqs[i].kind = "createBug" /\ reqs[i].phase = "sent"
    /\ LET made == createBug(nextId, reqs[i].body, env)
           r == IF made.status = 201 /\ findById(store, made.data[1].id) # {}
                THEN createBugCatch(DuplicateKey, env)
                ELSE made
       IN  /\ Answer(i, r, "")
           /\ IF r.status = 201
              THEN /\ store' = store \cup {r.data[1]}
                   /\ nextId' = IF "_id" \in reqs[i].body.has THEN nextId
                                ELSE nextId + 1
                   /\ madeBy' = madeBy \cup {<<reqs[i].cid, r.data[1].id>>}
              ELSE UNCHANGED <<serverVars, madeBy>>
    /\ UNCHANGED notServer
    /\ last' = ""

ServeUpdateBug(i) ==
    /\ reqs[i].kind = "updateBug" /\ reqs[i].phase = "sent"
    /\ LET r == updateBug(store, reqs[i].id, reqs[i].body, env)
       IN  /\ Answer(i, r, IF r.status = 400 THEN "" ELSE Lookup(store, reqs[i].id))
           /\ store' = IF r.status = 200
                       THEN (store \ findById(store, reqs[i].id)) \cup {r.data[1]}
                       ELSE store
    /\ UNCHANGED <<nextId, madeBy, notServer>>
    /\ last' = ""

\* deleteBug up to its second await: the document was found, or the 404 is sent.
ServeDeleteFind(i) ==
    /\ reqs[i].kind = "deleteBug" /\ reqs[i].phase = "sent"
    /\ LET r == deleteBugFind(store, reqs[i].id, env)
       IN  IF r = NoResponse
           THEN reqs' = [reqs EXCEPT ![i].phase = "found", ![i].lookup = "doc"]
           ELSE Answer(i, r, Lookup(store, reqs[i].id))
    /\ UNCHANGED <<serverVars, madeBy, notServer>>
    /\ last' = ""

\* bug.deleteOne() and the 200: deleting a document already gone still resolves.
ServeDeleteOne(i) ==
    /\ reqs[i].kind = "deleteBug" /\ reqs[i].phase = "found"
    /\ store' = store \ findById(store, reqs[i].id)
    /\ Answer(i, Response(200, <<>>, "", FALSE), "doc")
    /\ UNCHANGED <<nextId, madeBy, notServer>>
    /\ last' = ""

(***************************************************************************)
(* bugService.js: what a call resolves to or throws.                       *)
(***************************************************************************)
ConnectMsg == "Unable to connect to the server"

\* fetch rejected ("Failed to fetch"): the request or its response was lost.
NetworkFailure == Response(0, <<>>, ConnectMsg, FALSE)

\* response.ok
ok(r) == r.status >= 200 /\ r.status < 300

\* The default of the caller whatever the error says.
messageAlwaysDefault(r, default) == default

\* err.message of the Error a service call throws, or the default of the caller
message(r, default) == IF r.error # "" THEN r.error ELSE default

(***************************************************************************)
(* App.jsx and ErrorBoundary.jsx: the tree of boundaries and what React    *)
(* does when the render of a component throws.                             *)
(***************************************************************************)
\* The ErrorBoundary instances of App, by what they enclose.
Boundaries == {"app", "header", "list", "form"}

\* The components App renders inside them.
Components == {"BugProvider", "Header", "BugList", "BugForm"}

\* this.state of an ErrorBoundary: error and errorInfo name the component that
\* threw ("" is null).
BoundaryState(hasError, thrown, errorInfo) ==
    [hasError |-> hasError, error |-> thrown, errorInfo |-> errorInfo]

\* constructor(props)
NewBoundary == BoundaryState(FALSE, "", "")

\* b: the state of each boundary; showForm, editingBug: the state of App;
\* broken: the components whose render throws; dirty: a render is scheduled;
\* resets (history): the calls of each boundary's onReset; events (history): the
\* events so far; did (history): the handler the last step ran, and on which
\* boundary.
InitUi ==
    [b |-> [x \in Boundaries |-> NewBoundary], showForm |-> FALSE,
     editingBug |-> NoId, broken |-> {}, dirty |-> FALSE,
     resets |-> [x \in Boundaries |-> 0], events |-> 0,
     did |-> <<"", "">>]

\* The boundary around every component: the app boundary.
NearestIsApp(c) == "app"

\* The nearest ErrorBoundary above a component in the tree App returns.
Nearest(c) ==
    CASE c = "BugProvider" -> "app"
      [] c = "Header" -> "header"
      [] c = "BugList" -> "list"
      [] c = "BugForm" -> "form"

\* The boundaries App passes an onReset to.
HasOnReset(x) == x \in {"list", "form"}

\* render() of a boundary returns its children unless hasError.
RendersChildren(u, x) == ~u.b[x].hasError

\* The boundary is in the tree: everything above it renders its children, and
\* the form boundary stands in the showForm branch.
Mounted(u, x) ==
    CASE x = "app" -> TRUE
      [] x \in {"header", "list"} -> RendersChildren(u, "app")
      [] x = "form" ->
            RendersChildren(u, "app") /\ RendersChildren(u, "list") /\ u.showForm

\* The component is rendered.
Rendered(u, c) ==
    CASE c = "BugProvider" -> RendersChildren(u, "app")
      [] c = "Header" -> Mounted(u, "header") /\ RendersChildren(u, "header")
      [] c = "BugList" ->
            Mounted(u, "list") /\ RendersChildren(u, "list") /\ ~u.showForm
      [] c = "BugForm" -> Mounted(u, "form") /\ RendersChildren(u, "form")

\* getDerivedStateFromError, then componentDidCatch, of the boundary that
\* catches what component c threw.
Catch(u, c) ==
    [u EXCEPT !.b[Nearest(c)] = BoundaryState(TRUE, c, c)]

\* A boundary that leaves the tree loses its state: it is constructed anew
\* when it is rendered again.
Unmount(u) ==
    [u EXCEPT !.b = [x \in Boundaries |->
                       IF Mounted(u, x) THEN u.b[x] ELSE NewBoundary]]

\* One render of the tree, from the top: every component that throws is caught
\* by its boundary, whose children then leave the tree. BugProvider is above
\* the other components, which are not rendered when it throws.
RECURSIVE Render(_)
Render(u) ==
    LET failing == {c \in u.broken : Rendered(u, c)}
    IN  IF failing = {} THEN [Unmount(u) EXCEPT !.dirty = FALSE]
        ELSE Render(Catch(u, CHOOSE c \in failing :
                                c = "BugProvider" \/ "BugProvider" \notin failing))

\* handleReset with an error left in the state.
handleResetKeepsError(u, x) ==
    LET cleared == [u EXCEPT !.b[x] = BoundaryState(FALSE, @.error, ""),
                             !.did = <<"handleReset", x>>, !.dirty = TRUE]
    IN  IF HasOnReset(x)
        THEN [cleared EXCEPT !.showForm = FALSE, !.editingBug = NoId,
                             !.resets[x] = @ + 1]
        ELSE cleared

\* handleReset of boundary x: the state is reset, then onReset is called when
\* there is one; the two onReset of App both close the form.
handleReset(u, x) ==
    LET cleared == [u EXCEPT !.b[x] = BoundaryState(FALSE, "", ""),
                             !.did = <<"handleReset", x>>, !.dirty = TRUE]
    IN  IF HasOnReset(x)
        THEN [cleared EXCEPT !.showForm = FALSE, !.editingBug = NoId,
                             !.resets[x] = @ + 1]
        ELSE cleared

(***************************************************************************)
(* BugContext.jsx: the BugProvider.  A state update is rendered before the *)
(* next call is made, so a call reads the state the last step left.        *)
(***************************************************************************)
\* The bodies BugForm submits and the selections BugList makes.
ClientBodies == {Body({"title", "status", "priority"}, <<"a">>, "resolved", "medium")}

FilterChoices == {[status |-> s, priority |-> "", sort |-> ""] : s \in {"", "open"}}

\* The documents in the store when the provider mounts.
InitDocs == {newDocAt(1, Body({"title"}, <<"a">>, "", ""), 1),
             newDocAt(2, Body({"title", "status"}, <<"b">>, "resolved", ""), 1)}

\* The id the provider's callers address: a document of the store that the
\* status filter leaves out of the local collection.
TargetIds == {2}

activeFiltersIgnoresSelection(customFilters, f) == customFilters

\* const activeFilters = customFilters || filters
activeFilters(customFilters, f) == IF customFilters # NoQuery THEN customFilters ELSE f

Send(kind, id, body, query, gen) ==
    /\ ncalls < MaxCalls
    /\ ncalls' = ncalls + 1
    /\ reqs' = Append(reqs, Request(ncalls + 1, kind, id, body, query, gen))

\* loadBugs(), up to its await
loadBugs(f, gen) ==
    /\ loading' = TRUE
    /\ error' = ""
    /\ Send("getBugs", NoId, NoBody, activeFilters(NoQuery, f), gen)
    /\ nReloads' = nReloads + 1

\* useEffect(() => { loadBugs(); }, [loadBugs]) on mount
Mount ==
    /\ ~mounted
    /\ mounted' = TRUE
    /\ loadBugs(filters, 0)
    /\ UNCHANGED <<serverVars, bugs, filters, nSetFilters, madeBy, overlap, notClient>>
    /\ last' = ""

\* updateFilters(newFilters): newFilters is a fresh object, so filters changes,
\* loadBugs is rebuilt and the effect runs it with the new filters.
UpdateFilters(newFilters) ==
    /\ mounted
    /\ filters' = newFilters
    /\ nSetFilters' = nSetFilters + 1
    /\ loadBugs(newFilters, nSetFilters + 1)
    /\ UNCHANGED <<serverVars, bugs, mounted, madeBy, overlap, notClient>>
    /\ last' = ""

\* if (loading) throw new Error('Request already in progress')
createBugGuard(isLoading) == isLoading

\* createBug(bugData), up to its await
CreateBug(b) ==
    /\ mounted
    /\ IF createBugGuard(loading)
       THEN /\ last' = "Request already in progress"
            /\ UNCHANGED <<reqs, ncalls, loading, error, overlap>>
       ELSE /\ loading' = TRUE
            /\ error' = ""
            /\ Send("createBug", NoId, b, NoQuery, nSetFilters)
            /\ overlap' = overlap \cup
                 {<<reqs[i].cid, ncalls + 1>> :
                    i \in {j \in InFlight({"createBug"}) : reqs[j].body = b}}
            /\ last' = ""
    /\ UNCHANGED <<serverVars, bugs, filters, mounted, nReloads, nSetFilters, madeBy,
                   notClient>>

\* updateBug(id, bugData), up to its await
UpdateBug(id, b) ==
    /\ mounted
    /\ loading' = TRUE
    /\ error' = ""
    /\ Send("updateBug", id, b, NoQuery, nSetFilters)
    /\ UNCHANGED <<serverVars, bugs, filters, mounted, nReloads, nSetFilters, madeBy,
                   overlap, notClient>>
    /\ last' = ""

\* deleteBug(id), up to its await
DeleteBug(id) ==
    /\ mounted
    /\ loading' = TRUE
    /\ error' = ""
    /\ Send("deleteBug", id, NoBody, NoQuery, nSetFilters)
    /\ UNCHANGED <<serverVars, bugs, filters, mounted, nReloads, nSetFilters, madeBy,
                   overlap, notClient>>
    /\ last' = ""

insertBugUnchecked(prevBugs, newBug) == <<newBug>> \o prevBugs

\* setBugs of createBug: the new bug goes first unless its _id is already there
insertBug(prevBugs, newBug) ==
    IF \E k \in DOMAIN prevBugs : prevBugs[k].id = newBug.id
    THEN prevBugs
    ELSE <<newBug>> \o prevBugs

replaceBugUpsert(prevBugs, id, updatedBug) ==
    <<updatedBug>> \o SelectSeq(prevBugs, LAMBDA bug : bug.id # id)

\* setBugs of updateBug
replaceBug(prevBugs, id, updatedBug) ==
    [k \in DOMAIN prevBugs |-> IF prevBugs[k].id = id THEN updatedBug ELSE prevBugs[k]]

\* setBugs of deleteBug
removeBug(prevBugs, id) == SelectSeq(prevBugs, LAMBDA bug : bug.id # id)

\* What the service call of request i can settle with: the response the server
\* sent, or the network failure of a request or response that was lost.
Outcomes(i) ==
    IF reqs[i].phase = "answered" THEN {reqs[i].res, NetworkFailure}
    ELSE IF reqs[i].phase = "sent" THEN {NetworkFailure}
    ELSE {}

\* The rest of a call once its promise settles with r: try / catch / finally.
Settle(i, r, onSuccess, default, note) ==
    /\ IF ok(r)
       THEN /\ bugs' = onSuccess
            /\ error' = error
       ELSE /\ bugs' = bugs
            /\ error' = message(r, default)
    /\ loading' = FALSE
    /\ reqs' = Remove(reqs, i)
    /\ last' = note
    /\ UNCHANGED <<serverVars, filters, mounted, ncalls, nReloads, nSetFilters,
                   madeBy, overlap, notClient>>

\* A reload whose completion puts the selection back through updateFilters.
LoadBugsDoneResync(i) ==
    /\ reqs[i].kind = "getBugs"
    /\ ncalls < MaxCalls
    /\ \E r \in Outcomes(i) :
          /\ bugs' = IF ok(r) THEN r.data ELSE bugs
          /\ error' = ""
    /\ loading' = TRUE
    /\ nSetFilters' = nSetFilters + 1
    /\ nReloads' = nReloads + 1
    /\ ncalls' = ncalls + 1
    /\ reqs' = Append(Remove(reqs, i),
                      Request(ncalls + 1, "getBugs", NoId, NoBody, filters,
                              nSetFilters + 1))
    /\ last' = ""
    /\ UNCHANGED <<serverVars, filters, mounted, madeBy, overlap, notClient>>

LoadBugsDone(i) ==
    /\ reqs[i].kind = "getBugs"
    /\ \E r \in Outcomes(i) : Settle(i, r, r.data, "Failed to load bugs", "")

CreateBugDone(i) ==
    /\ reqs[i].kind = "createBug"
    /\ \E r \in Outcomes(i) :
          Settle(i, r, insertBug(bugs, r.data[1]), "Failed to create bug",
                 IF ~ok(r) THEN "throw err"
                 ELSE IF insertBug(bugs, r.data[1]) = bugs
                      THEN "Don't add duplicate" ELSE "")

UpdateBugDone(i) ==
    /\ reqs[i].kind = "updateBug"
    /\ \E r \in Outcomes(i) :
          Settle(i, r, replaceBug(bugs, reqs[i].id, r.data[1]), "Failed to update bug",
                 IF ok(r) THEN "" ELSE "throw err")

DeleteBugDone(i) ==
    /\ reqs[i].kind = "deleteBug"
    /\ \E r \in Outcomes(i) :
          Settle(i, r, removeBug(bugs, reqs[i].id), "Failed to delete bug",
                 IF ok(r) THEN "" ELSE "throw err")

InitClient ==
    /\ store = InitDocs /\ nextId = Cardinality(InitDocs) + 1 /\ reqs = <<>>
    /\ bugs = <<>> /\ loading = FALSE /\ error = "" /\ filters = NoQuery
    /\ mounted = FALSE
    /\ ncalls = 0 /\ nReloads = 0 /\ nSetFilters = 0
    /\ last = ""
    /\ madeBy = {} /\ overlap = {}
    /\ done = {} /\ err = NoError /\ env = "production" /\ sent = <<>>
    /\ sink = "ok" /\ now = 1 /\ call = NoCall /\ ret = NoRet /\ ui = InitUi

NextClient ==
    \/ Mount
    \/ \E f \in FilterChoices : UpdateFilters(f)
    \/ \E b \in ClientBodies : CreateBug(b)
    \/ \E id \in TargetIds, b \in ClientBodies : UpdateBug(id, b)
    \/ \E id \in TargetIds : DeleteBug(id)
    \/ \E i \in DOMAIN reqs : LoadBugsDone(i)
    \/ \E i \in DOMAIN reqs : CreateBugDone(i)
    \/ \E i \in DOMAIN reqs : UpdateBugDone(i)
    \/ \E i \in DOMAIN reqs : DeleteBugDone(i)
    \/ \E i \in DOMAIN reqs : ServeGetBugs(i)
    \/ \E i \in DOMAIN reqs : ServeCreateBug(i)
    \/ \E i \in DOMAIN reqs : ServeUpdateBug(i)
    \/ \E i \in DOMAIN reqs : ServeDeleteFind(i)
    \/ \E i \in DOMAIN reqs : ServeDeleteOne(i)

SpecClient == InitClient /\ [][NextClient]_vars

(***************************************************************************)
(* Claims about the BugProvider (SpecClient).                              *)
(***************************************************************************)
ids(docs) == {d.id : d \in docs}

Reloads == InFlight({"getBugs"})

\* C1: at most one mutating call (createBug, updateBug, deleteBug) is in flight
\* at any time: a second one issued meanwhile is rejected and sends nothing.
C1_OneMutationInFlight == Cardinality(InFlight(Mutating)) <= 1

\* C2: two identical creates, the second issued while the first is outstanding,
\* never leave two stored records, whatever the interleaving.
C2_IdenticalCreatesStoreOnce ==
    \A p \in overlap :
        ~ \E a, b \in madeBy :
              /\ a[1] = p[1] /\ b[1] = p[2]
              /\ {a[2], b[2]} \subseteq ids(store)

\* C3: only an outstanding mutating call causes the in-progress rejection, so a
\* create issued while only a reload is outstanding is accepted and sent.
C3_RejectedOnlyDuringMutation ==
    last = "Request already in progress" => InFlight(Mutating) # {}

\* C4: when updateFilters is called again before the reload of an earlier call
\* has resolved, exactly one further reload is issued for it, made with the
\* latest filter selection.
C4_SecondSetFiltersOneReload ==
    \A i \in Reloads :
        (reqs[i].gen >= 1 /\ reqs[i].gen < nSetFilters) =>
            /\ nReloads = nSetFilters + 1
            /\ \A j, k \in Reloads : reqs[j].gen = reqs[k].gen => j = k
            /\ \A j \in Reloads : reqs[j].gen = nSetFilters => reqs[j].query = filters

C4_Witness ==
    \E i, j \in Reloads :
        /\ reqs[i].gen = 1 /\ reqs[j].gen = 2 /\ nSetFilters = 2
        /\ reqs[j].query = filters /\ reqs[i].query # filters

\* A step in which the call of request i settles.
Settles(i) ==
    i \in DOMAIN reqs /\ \A k \in DOMAIN reqs' : reqs'[k].cid # reqs[i].cid

\* C5: a reload is issued on mount and once per updateFilters call, and by
\* nothing else; a reload that completes changes neither the filter selection
\* nor the number of reloads issued and sends nothing, so the reloads number
\* one more than the updateFilters calls.
C5_ReloadsOnlyFromSetFilters ==
    /\ [](nReloads = nSetFilters + (IF mounted THEN 1 ELSE 0))
    /\ [][/\ (nReloads' # nReloads) <=>
                 (mounted' # mounted \/ nSetFilters' # nSetFilters)
          /\ nReloads' # nReloads =>
                 /\ nReloads' = nReloads + 1
                 /\ Len(reqs') = Len(reqs) + 1
                 /\ reqs'[Len(reqs')].kind = "getBugs"
          /\ \A i \in Reloads :
                 Settles(i) => /\ filters' = filters
                               /\ nReloads' = nReloads
                               /\ nSetFilters' = nSetFilters
                               /\ ncalls' = ncalls]_vars

C5_Witness ==
    /\ nSetFilters >= 1 /\ nReloads = nSetFilters + 1
    /\ reqs = <<>> /\ ~loading

\* C6: the local collection never holds two records with the same identifier.
C6_NoDuplicateIds ==
    \A i, j \in DOMAIN bugs : bugs[i].id = bugs[j].id => i = j

C6_Witness ==
    /\ last = "Don't add duplicate"
    /\ \E a \in madeBy : \E k \in DOMAIN bugs : bugs[k].id = a[2]

\* s without its records of identifier id, the others in their order
RECURSIVE Without(_, _)
Without(s, id) ==
    IF s = <<>> THEN <<>>
    ELSE IF Head(s).id = id THEN Without(Tail(s), id)
    ELSE <<Head(s)>> \o Without(Tail(s), id)

\* C7: when an update or delete settles, the local collection changes at most
\* at the record with the call's identifier (replaced by the returned record, or
\* removed), the other records and the order stay, and with no such record the
\* collection is unchanged and no error is set; a failed call changes nothing.
C7_OnlyTheMatchingRecord ==
    [][\A i \in InFlight({"updateBug", "deleteBug"}) :
          Settles(i) =>
              \/ bugs' = bugs /\ error' # ""
              \/ /\ error' = error
                 /\ reqs[i].phase = "answered" /\ ok(reqs[i].res)
                 /\ IF reqs[i].kind = "updateBug"
                    THEN /\ Len(bugs') = Len(bugs)
                         /\ \A k \in DOMAIN bugs :
                               bugs'[k] = IF bugs[k].id = reqs[i].id
                                          THEN reqs[i].res.data[1]
                                          ELSE bugs[k]
                    ELSE bugs' = Without(bugs, reqs[i].id)
                 /\ (\A k \in DOMAIN bugs : bugs[k].id # reqs[i].id) => bugs' = bugs
      ]_vars

\* The update of bug 2 has succeeded: bug 2 is replaced in place, bug 1 is as
\* the mount reload brought it.
C7_Witness ==
    /\ ncalls = 2 /\ reqs = <<>> /\ error = "" /\ nReloads = 1
    /\ Len(bugs) = 2
    /\ bugs[1].id = 2 /\ bugs[1].title = <<"a">>
    /\ bugs[2] \in InitDocs

\* C25 as claimed: every create, update or delete that fails, the create
\* refused at once included, leaves the local collection as it was, sets error
\* to the failure's message and rejects to its caller.
C25_AsClaimed ==
    [][last' \in {"throw err", "Request already in progress"}
       => bugs' = bugs /\ error' # "" /\ (last' # "throw err" => error' = last')]_vars

\* C25 amended: a create, update or delete whose service call fails leaves the
\* local collection as it was when it settles, sets error to the message of
\* the failure and rejects to its caller, and starting a call does not change
\* the collection; the create refused at once rejects too, but leaves error as
\* it was.
C25_FailedCallSurfaces ==
    [][/\ \A i \in InFlight(Mutating) :
             Settles(i) =>
                 /\ ~ok(reqs[i].res) => last' = "throw err"
                 /\ last' = "throw err" =>
                        /\ bugs' = bugs
                        /\ error' # ""
                        /\ error' \in {reqs[i].res.error, ConnectMsg}
       /\ ncalls' # ncalls => bugs' = bugs
       /\ last' = "Request already in progress"
          => bugs' = bugs /\ error' = error /\ ncalls' = ncalls]_vars

\* The delete of a bug already deleted was answered 404 and has rejected, with
\* the local collection as the reload left it.
C25_Witness ==
    /\ last = "throw err" /\ error = "Bug not found"
    /\ Len(bugs) >= 1 /\ reqs = <<>>

\* C26: once every outstanding reload has completed, the local collection is
\* the result of the reload made with the latest filter selection, whatever
\* order the responses arrived in. (Stated where the provider made only
\* reloads and none has failed since the last was started, so that the latest
\* reload succeeded and nothing else wrote the collection.)
C26_LatestSelectionWins ==
    (mounted /\ Reloads = {} /\ reqs = <<>> /\ ncalls = nReloads /\ error = "")
    => bugs = find(store, filters)

\* C27: loading is true exactly while at least one call (reload, create,
\* update or delete) is outstanding: it does not return to false until every
\* outstanding call has completed.
C27_LoadingWhileOutstanding == loading <=> reqs # <<>>

\* The identifiers of the records of a local collection.
localIds(list) == {list[k].id : k \in DOMAIN list}

\* C28: a record that a create of this provider stored and put into the local
\* collection stays there when a reload completes, also a reload started
\* before the create completed, as long as the record is still stored and
\* updateFilters was never called.
C28_ReloadKeepsCreated ==
    [][\A i \in Reloads :
          (Settles(i) /\ nSetFilters = 0)
          => \A a \in madeBy :
                 (a[2] \in localIds(bugs) /\ a[2] \in ids(store))
                 => a[2] \in localIds(bugs')]_vars

(***************************************************************************)
(* SpecServer: the API's callers and the controllers.                      *)
(***************************************************************************)
\* The values of NODE_ENV the server runs under.
NodeEnvs == {"production", "development", "test"}

\* The identifiers callers address: a malformed one, a document of the store,
\* and one the store has not assigned (until a create makes it).
ApiIds == {Malformed, 1, Cardinality(InitDocs) + 1}

ValidBody == Body({"status"}, <<>>, "in-progress", "")

ApiUpdateBodies == {ValidBody, Body({"status"}, <<>>, "closed", "")}

\* A body the schema accepts, and one with a title of 201 characters and a
\* priority outside the enumeration.
ApiCreateBodies ==
    {Body({"title"}, <<"c">>, "", ""),
     Body({"title", "priority"}, Chars(TitleMax + 1, "x"), "", "urgent")}

\* The errors a store operation can fail with, other than the CastError and
\* ValidationError mongoose raises before it reaches the store.
StoreFaults ==
    {RawError("MongoServerError", 0, 0, "connection pool closed", <<>>),
     RawError("MongoNetworkError", 0, 0, "connect ECONNREFUSED", <<>>)}

Api(kind, id, body, query) ==
    /\ ncalls < MaxRequests
    /\ ncalls' = ncalls + 1
    /\ reqs' = Append(reqs, Request(ncalls + 1, kind, id, body, query, 0))
    /\ last' = ""
    /\ UNCHANGED <<serverVars, clientVars, madeBy, overlap, done, err, env, sink,
                   now, call, ret, ui, sent>>

ApiGetBugs == Api("getBugs", NoId, NoBody, NoQuery)

ApiGetBug(id) == Api("getBug", id, NoBody, NoQuery)

ApiCreateBug(b) == Api("createBug", NoId, b, NoQuery)

ApiUpdateBug(id, b) == Api("updateBug", id, b, NoQuery)

ApiDeleteBug(id) == Api("deleteBug", id, NoBody, NoQuery)

\* The request's next store operation is reached: mongoose found nothing wrong
\* with the identifier or the body before it.
ReachesStore(r) ==
    /\ r.phase \in {"sent", "found"}
    /\ r.kind \in {"getBug", "updateBug", "deleteBug"} => isObjectId(r.id)
    /\ r.kind = "createBug" => schemaErrors(r.body, TRUE) = <<>>
    /\ r.kind = "updateBug" => schemaErrors(r.body, FALSE) = <<>>

\* What the catch block of the request's controller answers for error e.
Caught(r, e, nodeEnv) ==
    CASE r.kind = "getBug" -> getBugCatch(e, nodeEnv)
      [] r.kind = "createBug" -> createBugCatch(e, nodeEnv)
      [] r.kind = "updateBug" -> updateBugCatch(e, nodeEnv)
      [] r.kind = "deleteBug" -> deleteBugCatch(e, nodeEnv)
      [] OTHER -> errorHandler(e, nodeEnv)

\* The store operation of request i fails and the controller's catch answers.
StoreFault(i, e) ==
    /\ ReachesStore(reqs[i])
    /\ Answer(i, Caught(reqs[i], e, env),
              IF reqs[i].phase = "found" THEN "doc"
              ELSE IF reqs[i].kind \in {"getBug", "updateBug", "deleteBug"}
                   THEN "fault" ELSE "")
    /\ UNCHANGED <<serverVars, madeBy, notServer>>
    /\ last' = ""

\* The caller receives the response.
ApiReceive(i) ==
    /\ reqs[i].phase = "answered"
    /\ done' = done \cup {[kind |-> reqs[i].kind, id |-> reqs[i].id,
                           status |-> reqs[i].res.status]}
    /\ reqs' = Remove(reqs, i)
    /\ last' = ""
    /\ UNCHANGED <<serverVars, clientVars, ncalls, madeBy, overlap, err, env,
                   sink, now, call, ret, ui, sent>>

InitServer ==
    /\ store = InitDocs /\ nextId = Cardinality(InitDocs) + 1 /\ reqs = <<>>
    /\ bugs = <<>> /\ loading = FALSE /\ error = "" /\ filters = NoQuery
    /\ mounted = FALSE
    /\ ncalls = 0 /\ nReloads = 0 /\ nSetFilters = 0
    /\ last = ""
    /\ madeBy = {} /\ overlap = {}
    /\ done = {} /\ err = NoError /\ sent = <<>>
    /\ sink = "ok" /\ now = 1 /\ call = NoCall /\ ret = NoRet /\ ui = InitUi
    /\ env \in NodeEnvs

NextServer ==
    \/ ApiGetBugs
    \/ \E id \in ApiIds : ApiGetBug(id)
    \/ \E b \in ApiCreateBodies : ApiCreateBug(b)
    \/ \E id \in ApiIds, b \in ApiUpdateBodies : ApiUpdateBug(id, b)
    \/ \E id \in ApiIds : ApiDeleteBug(id)
    \/ \E i \in DOMAIN reqs : ServeGetBugs(i)
    \/ \E i \in DOMAIN reqs : ServeGetBug(i)
    \/ \E i \in DOMAIN reqs : ServeCreateBug(i)
    \/ \E i \in DOMAIN reqs : ServeUpdateBug(i)
    \/ \E i \in DOMAIN reqs : ServeDeleteFind(i)
    \/ \E i \in DOMAIN reqs : ServeDeleteOne(i)
    \/ \E i \in DOMAIN reqs, e \in StoreFaults : StoreFault(i, e)
    \/ \E i \in DOMAIN reqs : ApiReceive(i)

SpecServer == InitServer /\ [][NextServer]_vars

\* C8: a read, an update with a valid body or a delete whose identifier is
\* malformed or matches no stored record is answered 404, never 500.
C8_BadIdIsNotFound ==
    \A i \in DOMAIN reqs :
        (/\ reqs[i].phase = "answered"
         /\ reqs[i].kind \in {"getBug", "updateBug", "deleteBug"}
         /\ reqs[i].kind = "updateBug" => reqs[i].body = ValidBody
         /\ reqs[i].lookup \in {"CastError", "null"})
        => reqs[i].res.status = 404 /\ ~reqs[i].res.success

\* Request i is answered by this step of the server.
Answers(i) ==
    /\ i \in DOMAIN reqs' /\ reqs'[i].cid = reqs[i].cid
    /\ reqs[i].phase # "answered" /\ reqs'[i].phase = "answered"

C11_FailureLoggedOnce ==
    \A i \in DOMAIN reqs :
        (reqs[i].phase = "answered" /\ reqs[i].res.status >= 400)
        => reqs[i].res.logs = 1

\* Each of the three controllers has answered a bad identifier.
C8_Witness ==
    \E i, j \in DOMAIN reqs :
        /\ reqs[i].kind = "deleteBug" /\ reqs[i].lookup = "null"
        /\ reqs[i].res.status = 404
        /\ reqs[j].kind = "updateBug" /\ reqs[j].lookup = "CastError"
        /\ reqs[j].body = ValidBody /\ reqs[j].res.status = 404

\* C29: of two deletes of one stored id that the server handles concurrently
\* (and that no store fault interrupts), exactly one is answered with success
\* and the other with notFound, in every interleaving.
C29_OneDeleteSucceeds ==
    \A i, j \in DOMAIN reqs :
        (/\ i # j
         /\ reqs[i].kind = "deleteBug" /\ reqs[j].kind = "deleteBug"
         /\ reqs[i].id = reqs[j].id /\ reqs[i].id \in ids(InitDocs)
         /\ reqs[i].phase = "answered" /\ reqs[j].phase = "answered"
         /\ reqs[i].res.status # 500 /\ reqs[j].res.status # 500)
        => {reqs[i].res.status, reqs[j].res.status} = {200, 404}

(***************************************************************************)
(* SpecStore: one caller making its requests one after the other, while    *)
(* the server's clock advances.                                            *)
(***************************************************************************)
StoreIds == {1, Cardinality(InitDocs) + 1}

\* {"$rename": {"title": "t"}}
RenameTitle == [NoBody EXCEPT !.has = {"$rename"}]

\* Create bodies: a critical bug; one that names the _id of a document; one
\* that names a createdAt later than the clock reaches.
StoreCreateBodies ==
    {Body({"title", "priority"}, <<"c">>, "", "critical"),
     WithId(Body({"title"}, <<"d">>, "", ""), 1),
     WithCreatedAt(Body({"title"}, <<"e">>, "", ""), MaxNow + 1)}

\* Update bodies: a new status; a blank title; the rename of title.
StoreUpdateBodies == {ValidBody, Body({"title"}, <<" ">>, "", ""), RenameTitle}

StoreQueries == {NoQuery, [NoQuery EXCEPT !.sort = "priority"]}

\* The caller waits for the response of a request before it makes the next.
Call(kind, id, body, query) ==
    /\ reqs = <<>>
    /\ ncalls < MaxOps
    /\ ncalls' = ncalls + 1
    /\ reqs' = <<Request(ncalls + 1, kind, id, body, query, 0)>>
    /\ last' = ""
    /\ UNCHANGED <<serverVars, clientVars, madeBy, overlap, done, err, env, sink,
                   now, call, ret, ui, sent>>

\* Time passes on the server.
Tick ==
    /\ now < MaxNow
    /\ now' = now + 1
    /\ last' = ""
    /\ UNCHANGED <<serverVars, reqs, clientVars, ncalls, madeBy, overlap, done, err,
                   env, sink, call, ret, ui, sent>>

InitStore == InitServer /\ env = "production"

NextStore ==
    \/ \E q \in StoreQueries : Call("getBugs", NoId, NoBody, q)
    \/ \E id \in StoreIds : Call("getBug", id, NoBody, NoQuery)
    \/ \E b \in StoreCreateBodies : Call("createBug", NoId, b, NoQuery)
    \/ \E id \in StoreIds, b \in StoreUpdateBodies : Call("updateBug", id, b, NoQuery)
    \/ \E id \in StoreIds : Call("deleteBug", id, NoBody, NoQuery)
    \/ \E i \in DOMAIN reqs : ServeGetBugs(i)
    \/ \E i \in DOMAIN reqs : ServeGetBug(i)
    \/ \E i \in DOMAIN reqs : ServeCreateBug(i)
    \/ \E i \in DOMAIN reqs : ServeUpdateBug(i)
    \/ \E i \in DOMAIN reqs : ServeDeleteFind(i)
    \/ \E i \in DOMAIN reqs : ServeDeleteOne(i)
    \/ \E i \in DOMAIN reqs : ApiReceive(i)
    \/ Tick

SpecStore == InitStore /\ [][NextStore]_vars

\* C16: every stored record has its status and its priority in their
\* enumerations and a title that is not empty after trimming.
C16_StoredRecordsValid ==
    \A d \in store :
        /\ d.status \in Statuses
        /\ d.priority \in Priorities
        /\ Trim(d.title) # <<>>

\* C17: updatedAt >= createdAt for every stored record; the two are equal when
\* the record is created; a successful update strictly increases updatedAt and
\* leaves createdAt as it was.
C17_UpdatedAtAdvances ==
    [][/\ \A d \in store' : d.updatedAt >= d.createdAt
       /\ \A i \in DOMAIN reqs :
             (Answers(i) /\ reqs'[i].res.success)
             => LET r == reqs'[i].res.data[1]
                IN  CASE reqs[i].kind = "createBug" -> r.updatedAt = r.createdAt
                      [] reqs[i].kind = "updateBug" ->
                            \A d \in findById(store, reqs[i].id) :
                                /\ r.updatedAt > d.updatedAt
                                /\ r.createdAt = d.createdAt
                      [] OTHER -> TRUE]_vars

\* The ids whose delete the caller has seen succeed.
Deleted == {x.id : x \in {y \in done : y.kind = "deleteBug" /\ y.status = 200}}

\* C18: once a delete of an id has returned success, every later read, update
\* (with a body that passes validation) or delete of that id is answered
\* notFound and no later list contains a record of that id.
C18_DeletionIsPermanent ==
    \A i \in DOMAIN reqs :
        reqs[i].phase = "answered"
        => /\ (/\ reqs[i].kind \in {"getBug", "updateBug", "deleteBug"}
               /\ schemaErrors(reqs[i].body, FALSE) = <<>>
               /\ reqs[i].id \in Deleted) => reqs[i].res.status = 404
           /\ reqs[i].kind = "getBugs"
              => \A k \in DOMAIN reqs[i].res.data :
                     reqs[i].res.data[k].id \notin Deleted

\* getPriorityWeight of a priority of the enumeration
priorityWeight(p) ==
    CASE p = "low" -> 1 [] p = "medium" -> 2 [] p = "high" -> 3
      [] p = "critical" -> 4 [] OTHER -> 0

\* C19: a list sorted by priority descending is in non-increasing
\* priorityWeight order: critical before high before medium before low.
C19_PrioritySortByWeight ==
    \A i \in DOMAIN reqs :
        (/\ reqs[i].phase = "answered" /\ reqs[i].kind = "getBugs"
         /\ reqs[i].query.sort = "priority")
        => LET data == reqs[i].res.data
           IN  \A j, k \in DOMAIN data :
                   j < k => priorityWeight(data[j].priority)
                            >= priorityWeight(data[k].priority)

(***************************************************************************)
(* SpecError: errorHandler applied to one raw error.                       *)
(***************************************************************************)
ErrorNames ==
    {"Error", "CastError", "ValidationError", "MongoServerError", "MongoError",
     "JsonWebTokenError", "TokenExpiredError", "SyntaxError"}

ErrorCodes == {0, 11000, 121}

ErrorStatusCodes == {0, 400, 404, 503}

ErrorMessages == {"", "boom"}

\* A mongoose ValidationError always carries the errors of its paths.
ErrorInputs ==
    {RawError(n, c, s, m,
              IF n = "ValidationError" THEN <<"Title is required">> ELSE <<>>) :
        n \in ErrorNames, c \in ErrorCodes, s \in ErrorStatusCodes,
        m \in ErrorMessages}

Idle ==
    /\ store = {} /\ nextId = 1 /\ reqs = <<>>
    /\ bugs = <<>> /\ loading = FALSE /\ error = "" /\ filters = NoQuery
    /\ mounted = FALSE
    /\ ncalls = 0 /\ nReloads = 0 /\ nSetFilters = 0
    /\ last = ""
    /\ madeBy = {} /\ overlap = {}
    /\ done = {} /\ now = 1 /\ ui = InitUi

\* The logging sink works throughout SpecError; SpecSink lets it fail.
InitError ==
    /\ Idle
    /\ err \in ErrorInputs
    /\ env \in NodeEnvs
    /\ sink = "ok"
    /\ call = NoCall /\ ret = NoRet
    /\ sent = <<>>

HandleError ==
    /\ sent = <<>>
    /\ sent' = <<errorHandler(err, env)>>
    /\ UNCHANGED <<serverVars, reqs, clientVars, ncalls, last, madeBy, overlap, done,
                   err, env, sink, now, call, ret, ui>>

NextError == HandleError

SpecError == InitError /\ [][NextError]_vars

\* C9: every raw failure carrying the duplicate-key code 11000 is answered 400,
\* whatever error name it also carries.
C9_DuplicateKeyIs400 ==
    (sent # <<>> /\ err.code = 11000) => sent[1].status = 400

C13_StorageFaultTextIsSafe ==
    (sent # <<>> /\ sent[1].status = 500 /\ env = "production")
    => \A m \in ErrorMessages :
           LET other == errorHandler([err EXCEPT !.message = m], env)
           IN  other.status = 500 => other.error = sent[1].error

\* C14: an error response carries stack and details only outside production;
\* in production its body is success and error alone.
C14_DiagnosticsOnlyOutsideProduction ==
    sent # <<>> =>
        /\ sent[1].diag => env # "production"
        /\ env = "production" => ~sent[1].diag /\ sent[1].data = <<>>

\* errorHandler has answered in development, with the diagnostics.
C14_Witness ==
    /\ sent # <<>> /\ env = "development" /\ sent[1].diag
    /\ err.name = "MongoServerError"

(***************************************************************************)
(* SpecSink: errorHandler with a logging sink that may throw.              *)
(***************************************************************************)
\* What express does with an exception thrown by the last error middleware: its
\* final handler answers 500 with its own page, not with errorHandler's body.
finalhandler == Response(500, <<>>, "Internal Server Error", FALSE)

\* errorHandler calls the logger outside any try: a throw of the sink leaves it
\* before res.status(...).json(...).
InitSink ==
    /\ Idle
    /\ err \in ErrorInputs
    /\ env \in NodeEnvs
    /\ sink \in {"ok", "throws"}
    /\ call = NoCall /\ ret = NoRet
    /\ sent = <<>>

HandleErrorSink ==
    /\ sent = <<>>
    /\ sent' = IF sink = "throws" THEN <<finalhandler>>
               ELSE <<errorHandler(err, env)>>
    /\ UNCHANGED <<serverVars, reqs, clientVars, ncalls, last, madeBy, overlap, done,
                   err, env, sink, now, call, ret, ui>>

NextSink == HandleErrorSink

SpecSink == InitSink /\ [][NextSink]_vars

\* C12: a throw of the logging sink is not propagated: the caller still gets the
\* classified response for the original error.
C12_SinkFailureSwallowed ==
    sent # <<>> =>
        /\ sent[1].status = errorHandler(err, env).status
        /\ sent[1].error = errorHandler(err, env).error

(***************************************************************************)
(* SpecUtils: one call of a function of bugUtils.js.                       *)
(***************************************************************************)
\* The last title has 200 characters after a leading space.
Titles == {Undefined, Null, Number, Text(<<>>), Text(<<" ">>), Text(<<"a">>),
           Text(Chars(TitleMax + 1, "x")), Text(<<" ">> \o Chars(TitleMax, "x"))}

Texts == {Undefined, Text(<<" ">>), Text(<<"a">>)}

Words == {Undefined, Null, Number, Word("open"), Word("in-progress"),
          Word("resolved"), Word("low"), Word("critical"), Word("closed"),
          Word("constructor")}

BugDatas ==
    {Value(p) : p \in {Undefined, Null, Number, Word("open")}}
    \cup {Object(t, d, r, st, pr) :
             t \in Titles, d \in Texts, r \in Texts,
             st \in {Undefined, Word(""), Word("open"), Word("closed")},
             pr \in {Undefined, Word("low"), Word("urgent")}}

UtilCalls ==
    {[fn |-> "validateBugData", a |-> v, b |-> Value(Undefined)] : v \in BugDatas}
    \cup {[fn |-> "isValidStatusTransition", a |-> Value(x), b |-> Value(y)] :
             x \in Words, y \in Words}
    \cup {[fn |-> "getPriorityWeight", a |-> Value(x), b |-> Value(Undefined)] :
             x \in Words}

InitUtils ==
    /\ Idle
    /\ err = NoError /\ env = "production" /\ sink = "ok" /\ sent = <<>>
    /\ call \in UtilCalls
    /\ ret = NoRet

Returns(fn, r) ==
    /\ call.fn = fn /\ ret = NoRet
    /\ ret' = r
    /\ UNCHANGED <<serverVars, reqs, clientVars, ncalls, last, madeBy, overlap, done,
                   err, env, sink, now, call, ui, sent>>

ValidateBugData == Returns("validateBugData", validateBugData(call.a))

IsValidStatusTransition ==
    Returns("isValidStatusTransition", isValidStatusTransition(call.a, call.b))

GetPriorityWeight == Returns("getPriorityWeight", getPriorityWeight(call.a))

NextUtils == ValidateBugData \/ IsValidStatusTransition \/ GetPriorityWeight

SpecUtils == InitUtils /\ [][NextUtils]_vars

\* C20: validateBugData, isValidStatusTransition and getPriorityWeight never
\* throw, whatever the argument (null, undefined and non-objects included), and
\* invalid input yields false, 0 or a non-empty error list.
C20_UtilsNeverThrow ==
    ret # NoRet =>
        /\ ~ret.threw
        /\ (call.fn = "validateBugData" /\ call.a.t # "object")
           => ret.errors # <<>> /\ ~ret.bool
        /\ (call.fn = "isValidStatusTransition"
            /\ (~isStatus(call.a) \/ ~isStatus(call.b)))
           => ret.kind = "boolean" /\ ~ret.bool
        /\ (call.fn = "getPriorityWeight"
            /\ ~(call.a.t = "string" /\ call.a.s \in Priorities))
           => ret.kind = "number" /\ ret.num = 0

\* errors.includes(msg)
Includes(errors, msg) == \E k \in DOMAIN errors : errors[k] = msg

\* C21: validateBugData judges the length of the title after trimming: a title
\* whose trimmed text has 1 to 200 characters gets no title error, and one whose
\* trimmed text has more than 200 characters gets the 200-character error.
C21_TitleLengthAfterTrim ==
    (/\ ret # NoRet /\ call.fn = "validateBugData" /\ call.a.t = "object"
     /\ call.a.f["title"].t = "string")
    => LET trimmed == Trim(call.a.f["title"].chars)
       IN  /\ (Len(trimmed) >= 1 /\ Len(trimmed) <= TitleMax)
              => /\ ~Includes(ret.errors, "Title cannot exceed 200 characters")
                 /\ ~Includes(ret.errors,
                              "Title is required and must be a non-empty string")
           /\ Len(trimmed) > TitleMax
              => Includes(ret.errors, "Title cannot exceed 200 characters")

\* C22: isValidStatusTransition(a, b) returns true exactly when a and b are both
\* of open, in-progress, resolved and differ; it returns false for every
\* self-transition and whenever an argument is not of the enumeration.
C22_TransitionIffDistinctStatuses ==
    (ret # NoRet /\ call.fn = "isValidStatusTransition")
    => /\ ~ret.threw /\ ret.kind = "boolean"
       /\ ret.bool <=> /\ call.a.t = "string" /\ call.a.s \in Statuses
                       /\ call.b.t = "string" /\ call.b.s \in Statuses
                       /\ call.a.s # call.b.s

\* The reopening of a resolved bug was judged valid.
C22_Witness ==
    /\ ret # NoRet /\ call.fn = "isValidStatusTransition"
    /\ call.a = Value(Word("resolved")) /\ call.b = Value(Word("open"))
    /\ ret = Ret(FALSE, "boolean", TRUE, 0, <<>>)

(***************************************************************************)
(* SpecUi: App and its boundaries, while components start and stop         *)
(* throwing and the user clicks.                                           *)
(***************************************************************************)
\* An event: its handler leaves u, and React schedules a render.
Event(u, name, x) ==
    /\ ~ui.dirty
    /\ ui.events < MaxEvents
    /\ ui' = [u EXCEPT !.events = @ + 1, !.dirty = TRUE, !.did = <<name, x>>]
    /\ UNCHANGED <<serverVars, reqs, clientVars, ncalls, last, madeBy, overlap, done,
                   err, env, sink, now, call, ret, sent>>

\* The render of a component on screen starts to throw.
StartsThrowing(c) ==
    /\ Rendered(ui, c) /\ c \notin ui.broken
    /\ Event([ui EXCEPT !.broken = @ \cup {c}], "throw", c)

\* What made it throw is gone.
StopsThrowing(c) ==
    /\ c \in ui.broken
    /\ Event([ui EXCEPT !.broken = @ \ {c}], "mend", c)

\* handleNewBug, of the button beside BugList
HandleNewBug ==
    /\ Rendered(ui, "BugList")
    /\ Event([ui EXCEPT !.editingBug = NoId, !.showForm = TRUE], "handleNewBug", "")

\* handleEditBug(bug), of BugList
HandleEditBug(id) ==
    /\ Rendered(ui, "BugList")
    /\ Event([ui EXCEPT !.editingBug = id, !.showForm = TRUE], "handleEditBug", "")

\* handleCancelForm and handleFormSuccess, of BugForm
HandleCancelForm ==
    /\ Rendered(ui, "BugForm")
    /\ Event([ui EXCEPT !.showForm = FALSE, !.editingBug = NoId],
             "handleCancelForm", "")

\* Try Again, on the fallback of boundary x
HandleReset(x) ==
    /\ Mounted(ui, x) /\ ui.b[x].hasError
    /\ Event(handleReset(ui, x), "handleReset", x)

\* Reload Page: window.location.reload() builds the application anew.
HandleReload(x) ==
    /\ Mounted(ui, x) /\ ui.b[x].hasError
    /\ Event([InitUi EXCEPT !.broken = ui.broken, !.resets = ui.resets,
                            !.events = ui.events],
             "handleReload", x)

\* React renders the tree.
RenderTree ==
    /\ ui.dirty
    /\ ui' = [Render(ui) EXCEPT !.did = <<"render", "">>]
    /\ UNCHANGED <<serverVars, reqs, clientVars, ncalls, last, madeBy, overlap, done,
                   err, env, sink, now, call, ret, sent>>

InitUiSpec ==
    /\ Idle
    /\ err = NoError /\ env = "production"
    /\ sink = "ok" /\ sent = <<>>
    /\ call = NoCall /\ ret = NoRet

NextUi ==
    \/ \E c \in Components : StartsThrowing(c)
    \/ \E c \in Components : StopsThrowing(c)
    \/ HandleNewBug
    \/ \E id \in {1} : HandleEditBug(id)
    \/ HandleCancelForm
    \/ \E x \in Boundaries : HandleReset(x)
    \/ \E x \in Boundaries : HandleReload(x)
    \/ RenderTree

SpecUi == InitUiSpec /\ [][NextUi]_vars

\* The boundary App puts around each region.
Around == [c \in {"Header", "BugList", "BugForm"} |->
             CASE c = "Header" -> "header" [] c = "BugList" -> "list"
               [] c = "BugForm" -> "form"]

\* The components of the regions that throw in the render about to be made.
Failing == {c \in DOMAIN Around :
               c \in ui.broken /\ Rendered(ui, c) /\ "BugProvider" \notin ui.broken}

\* C23: a rendering failure in a region (header, list, form) is caught by the
\* boundary around that region only: that boundary switches to its fallback,
\* while the application boundary and the boundaries around the other regions
\* stay in the tree, not failed, rendering their children.
C23_NearestBoundaryOnly ==
    [][ui'.did[1] = "render" =>
          \A c \in Failing :
              /\ ui'.b[Around[c]].hasError /\ ui'.b[Around[c]].error = c
              /\ \A x \in Boundaries \ {Around[c]} :
                     (Mounted(ui, x) /\ RendersChildren(ui, x))
                     => /\ Mounted(ui', x)
                        /\ \/ RendersChildren(ui', x)
                           \/ \E d \in Failing \ {c} : Around[d] = x]_vars

\* BugForm has thrown: the form boundary shows its fallback inside the list
\* boundary, and the header, list and application boundaries render their
\* children.
C23_Witness ==
    /\ ui.did[1] = "render"
    /\ ui.b["form"] = BoundaryState(TRUE, "BugForm", "BugForm")
    /\ Mounted(ui, "form")
    /\ \A x \in {"app", "header", "list"} : Mounted(ui, x) /\ RendersChildren(ui, x)
    /\ Rendered(ui, "Header")

\* The components boundary x renders as its children.
Children(x) ==
    CASE x = "app" -> Components
      [] x = "header" -> {"Header"}
      [] x = "list" -> {"BugList", "BugForm"}
      [] x = "form" -> {"BugForm"}

C30_ValidatorImpliesSchema ==
    (/\ ret # NoRet /\ call.fn = "validateBugData"
     /\ ~ret.threw /\ ret.bool)
    => bugSchemaErrors(call.a) = <<>>

====
